---- MODULE Spec2Model ----
(***************************************************************************)
(* A state-machine model of repototxt.py (codehath/UltimateRTT): the       *)
(* ignore-pattern loader, the two local walks, the two remote worklists,   *)
(* the assembler get_text and the analyze command.                         *)
(*                                                                         *)
(* Text is modelled as a sequence of tokens.  A token is one character     *)
(* ("a", ".", "/", "\n"), one undecodable byte (xFF), or one fixed literal *)
(* of the program ("File: ", "Content:").  Two equal token sequences are   *)
(* equal texts.                                                            *)
(***************************************************************************)
EXTENDS Integers, Sequences, FiniteSets, TLC

(***************************************************************************)
(* Bounds of the model.                                                    *)
(***************************************************************************)
MaxIgnoreLines == 2   \* lines per ignore file in SpecParse
MaxTextLen == 2       \* bytes of the probe file s/m.py in SpecLocal
MaxRemoteNodes == 4   \* entries of a remote repository tree in SpecRemote

(***************************************************************************)
(* Strings.                                                                *)
(***************************************************************************)
NL == "\n"
CR == "\r"
xFF == "<0xFF>"        \* a byte that is not valid UTF-8
U00FF == "<U+00FF>"    \* the character Latin-1 decodes that byte to
Whitespace == {" ", "\t", NL, CR}

Upper == <<"A", "D", "E", "M", "R", "S">>
LowerOf == <<"a", "d", "e", "m", "r", "s">>

\* str.lower(), on the capital letters the model's names contain
LowerChar(c) ==
    IF \E i \in 1..Len(Upper) : Upper[i] = c
    THEN LowerOf[CHOOSE i \in 1..Len(Upper) : Upper[i] = c]
    ELSE c

Lower(s) == [i \in 1..Len(s) |-> LowerChar(s[i])]

RECURSIVE LStrip(_)
LStrip(s) ==
    IF s # <<>> /\ Head(s) \in Whitespace THEN LStrip(Tail(s)) ELSE s

RECURSIVE RStrip(_)
RStrip(s) ==
    IF s # <<>> /\ s[Len(s)] \in Whitespace
    THEN RStrip(SubSeq(s, 1, Len(s) - 1))
    ELSE s

\* str.strip()
Strip(s) == RStrip(LStrip(s))

\* str.startswith / str.endswith
StartsWith(s, p) == Len(p) <= Len(s) /\ SubSeq(s, 1, Len(p)) = p
EndsWith(s, p) ==
    Len(p) <= Len(s) /\ SubSeq(s, Len(s) - Len(p) + 1, Len(s)) = p

RECURSIVE Flatten(_)
Flatten(ss) == IF ss = <<>> THEN <<>> ELSE Head(ss) \o Flatten(Tail(ss))

Range(s) == {s[i] : i \in 1..Len(s)}

\* the sequences over S of length at most n
SeqsUpTo(S, n) == UNION {[1..k -> S] : k \in 0..n}

\* the orders in which a set can be listed
Perms(S) ==
    {p \in [1..Cardinality(S) -> S] : \A x \in S : \E i \in DOMAIN p : p[i] = x}

\* fnmatch.fnmatch(name, pat) on POSIX: "*" matches any run of characters
\* ("/" included), "?" any one character, everything else itself; the match
\* is of the whole name.  The patterns of the model have no "[".
RECURSIVE FnMatch(_, _)
FnMatch(name, pat) ==
    IF pat = <<>> THEN name = <<>>
    ELSE IF Head(pat) = "*"
         THEN \E k \in 0..Len(name) :
                 FnMatch(SubSeq(name, k + 1, Len(name)), Tail(pat))
         ELSE /\ name # <<>>
              /\ (Head(pat) = "?" \/ Head(pat) = Head(name))
              /\ FnMatch(Tail(name), Tail(pat))

\* os.path.splitext(name)[1]: from the last "." on, unless that dot is one
\* of the name's leading dots
LeadingDots(s) ==
    IF \E i \in 1..Len(s) : s[i] # "."
    THEN (CHOOSE i \in 1..Len(s) : s[i] # "." /\ \A j \in 1..(i - 1) : s[j] = ".") - 1
    ELSE Len(s)

SplitExt(name) ==
    LET dots == {i \in 1..Len(name) : name[i] = "."}
        last == IF dots = {} THEN 0 ELSE CHOOSE i \in dots : \A j \in dots : j <= i
    IN  IF last > LeadingDots(name) THEN SubSeq(name, last, Len(name)) ELSE <<>>

\* os.path.join(a, b) for a relative b
Join(a, b) == a \o <<"/">> \o b

\* os.path.relpath(p, start) for p below start
RelPath(p, start) == SubSeq(p, Len(start) + 2, Len(p))

(***************************************************************************)
(* BINARY_EXTENSIONS (bin_ext.py): the entries the model's file names can  *)
(* meet, out of the table's 185.                                           *)
(***************************************************************************)
BINARY_EXTENSIONS ==
    { <<".", "p", "n", "g">>,
      <<".", "t", "a", "r", ".", "g", "z">>,
      <<".", "g", "z">>,
      <<".", "l", "o", "g">>,
      <<".", "l", "o", "c", "k">>,
      <<"p", "a", "c", "k", "a", "g", "e", "-", "l", "o", "c", "k", ".", "j", "s", "o", "n">>,
      <<".", "D", "S", "_", "S", "t", "o", "r", "e">>,
      <<".", "g", "i", "t">>,
      <<".", "g", "i", "t", "i", "g", "n", "o", "r", "e">> }

(***************************************************************************)
(* The local directory the program is pointed at.  Entries are numbered in *)
(* the order os.scandir lists them; 0 is the directory itself.             *)
(***************************************************************************)
RootPath == <<"r">>
README_md == <<"R", "E", "A", "D", "M", "E", ".", "m", "d">>
readme_md == <<"r", "e", "a", "d", "m", "e", ".", "m", "d">>
DotGit == <<".", "g", "i", "t">>
DotGitignore == <<".", "g", "i", "t", "i", "g", "n", "o", "r", "e">>
DotGptignore == <<".", "g", "p", "t", "i", "g", "n", "o", "r", "e">>
DotEnv == <<".", "e", "n", "v">>

Tree ==
    << [name |-> README_md, kind |-> "file", parent |-> 0],
       [name |-> DotGit, kind |-> "dir", parent |-> 0],
       [name |-> <<"c">>, kind |-> "file", parent |-> 2],
       [name |-> DotGitignore, kind |-> "file", parent |-> 0],
       [name |-> DotGptignore, kind |-> "file", parent |-> 0],
       [name |-> DotEnv, kind |-> "file", parent |-> 0],
       [name |-> <<"s">>, kind |-> "dir", parent |-> 0],
       [name |-> DotEnv, kind |-> "file", parent |-> 7],
       [name |-> <<"m", ".", "p", "y">>, kind |-> "file", parent |-> 7],
       [name |-> <<"x", ".", "p", "n", "g">>, kind |-> "file", parent |-> 7],
       [name |-> <<".", "D", "S", "_", "S", "t", "o", "r", "e">>, kind |-> "file", parent |-> 7],
       [name |-> <<"b">>, kind |-> "dir", parent |-> 0],
       [name |-> <<"d">>, kind |-> "dir", parent |-> 12],
       [name |-> <<"k", ".", "p", "y">>, kind |-> "file", parent |-> 13],
       [name |-> <<"o", ".", "p", "y">>, kind |-> "file", parent |-> 12],
       [name |-> <<"p", "a", "c", "k", "a", "g", "e", "-", "l", "o", "c", "k", ".", "j", "s", "o", "n">>,
        kind |-> "file", parent |-> 0],
       [name |-> <<"y", ".", "t", "a", "r", ".", "g", "z">>, kind |-> "file", parent |-> 0] >>

\* an ignore file: whether it exists, and its raw lines
IgnoreFile(lines) == [exists |-> TRUE, lines |-> lines]
NoFile == [exists |-> FALSE, lines |-> <<>>]
None == "None"

Nodes == 1..Len(Tree)
GitignoreId == CHOOSE n \in Nodes : Tree[n].name = DotGitignore /\ Tree[n].parent = 0
GptignoreId == CHOOSE n \in Nodes : Tree[n].name = DotGptignore /\ Tree[n].parent = 0
ProbeId == CHOOSE n \in Nodes : Tree[n].name = <<"m", ".", "p", "y">>

\* the path os.walk and os.path.join give the entry: RootPath/.../name
RECURSIVE PathOf(_)
PathOf(n) == IF n = 0 THEN RootPath ELSE Join(PathOf(Tree[n].parent), Tree[n].name)

\* the ancestors of n, n excluded
RECURSIVE Ancestors(_)
Ancestors(n) ==
    IF n = 0 THEN {} ELSE {Tree[n].parent} \cup Ancestors(Tree[n].parent)

\* the raw lines the ignore files of the model are written with
LinePool ==
    { <<"#", "c", NL>>,
      <<NL>>,
      <<" ", "b", " ", NL>>,
      <<"b">>,
      <<"*", ".", "p", "y", NL>>,
      <<" ", "#", "x", NL>> }

DefaultIgnore == {DotGit, DotGitignore, <<"*", "*", "/", ".", "e", "n", "v">>}

VARIABLES
    copy_to_clipboard_option, save_to_file_option, timestamp_option, no_prompt,
    input_path,       \* the analyze argument
    GITHUB_TOKEN,     \* the module global read from the environment
    github_token,     \* the analyze option (flag or environment)
    gitignore,        \* r/.gitignore: NoFile or IgnoreFile(its raw lines)
    gptignore,        \* r/.gptignore: NoFile or IgnoreFile(its raw lines)
    probe,            \* the bytes of r/s/m.py
    fault,            \* "none", or the open of r/s/m.py that ends in an OSError
    repo,             \* the remote repository tree
    pc, is_local, repo_name,
    ignore_patterns,  \* list(set(...)) of the pass in progress
    walk,             \* directories os.walk has yet to yield
    files,            \* files of the yielded directory yet to be read
    readme_content, structure, file_contents_list,
    opened,           \* local files opened so far
    dirs_to_visit, dirs_visited,
    fetched,          \* remote directories fetched by the worklist in progress
    requests,         \* remote requests made so far
    text,
    clipboard,        \* the texts pyperclip.copy was given
    saved,            \* the files save_to_file wrote
    exit_code,        \* -1 while the command runs
    raised,
    run, first        \* which run of the command this is, and the first run's result

env == <<copy_to_clipboard_option, save_to_file_option, timestamp_option, no_prompt,
         input_path, GITHUB_TOKEN, github_token, gitignore, gptignore, probe,
         fault, repo>>
vars == <<copy_to_clipboard_option, save_to_file_option, timestamp_option, no_prompt,
          input_path, GITHUB_TOKEN, github_token, gitignore, gptignore, probe,
          fault, repo, pc, is_local, repo_name, ignore_patterns, walk, files,
          readme_content, structure, file_contents_list, opened, dirs_to_visit,
          dirs_visited, fetched, requests, text, clipboard, saved, exit_code,
          raised, run, first>>

\* does the entry exist in the directory?
Exists(n) ==
    CASE n = GitignoreId -> gitignore.exists
      [] n = GptignoreId -> gptignore.exists
      [] OTHER -> TRUE

\* the bytes of a file
Bytes(n) ==
    CASE n = GitignoreId -> Flatten(gitignore.lines)
      [] n = GptignoreId -> Flatten(gptignore.lines)
      [] n = ProbeId -> probe
      [] OTHER -> <<"a", NL>>

\* the entries of directory d, in listing order
RECURSIVE Listing(_, _, _)
Listing(d, kind, from) ==
    IF from > Len(Tree) THEN <<>>
    ELSE IF Tree[from].parent = d /\ Tree[from].kind = kind /\ Exists(from)
         THEN <<from>> \o Listing(d, kind, from + 1)
         ELSE Listing(d, kind, from + 1)

(***************************************************************************)
(* parse_ignore_patterns                                                   *)
(***************************************************************************)
\* the lines of one ignore file that survive: stripped, not blank, not "#"
RECURSIVE CleanedLines(_)
CleanedLines(lines) ==
    IF lines = <<>> THEN <<>>
    ELSE LET cleaned_line == Strip(Head(lines))
         IN  IF cleaned_line # <<>> /\ ~StartsWith(cleaned_line, <<"#">>)
             THEN <<cleaned_line>> \o CleanedLines(Tail(lines))
             ELSE CleanedLines(Tail(lines))

\* the list before "return list(set(ignore_patterns))"
CollectedPatterns(git, gpt) ==
    LET ignore_patterns_ == CleanedLines(git.lines) \o CleanedLines(gpt.lines)
    IN  IF ignore_patterns_ = <<>>
        THEN <<DotGit, DotGitignore, <<"*", "*", "/", ".", "e", "n", "v">>>>
        ELSE ignore_patterns_

\* a variant that returns the collected list as it is, duplicates kept
ParseIgnorePatterns_NoDedup(git, gpt) == {CollectedPatterns(git, gpt)}

\* the lists parse_ignore_patterns may return: set() drops the duplicates and
\* fixes no order
ParseIgnorePatterns(git, gpt) == Perms(Range(CollectedPatterns(git, gpt)))

\* a variant that consults only the first pattern of the list
AnyMatch_FirstOnly(name, patterns) ==
    patterns # <<>> /\ FnMatch(name, patterns[1])

\* any(fnmatch.fnmatch(name, pattern) for pattern in ignore_patterns)
AnyMatch(name, patterns) ==
    \E i \in 1..Len(patterns) : FnMatch(name, patterns[i])

(***************************************************************************)
(* Reading a local file.                                                   *)
(***************************************************************************)
\* text mode with newline=None: "\r\n" and a lone "\r" are read as "\n"
RECURSIVE UniversalNewlines(_)
UniversalNewlines(s) ==
    IF s = <<>> THEN <<>>
    ELSE IF Head(s) = CR
         THEN IF Len(s) >= 2 /\ s[2] = NL
              THEN <<NL>> \o UniversalNewlines(Tail(Tail(s)))
              ELSE <<NL>> \o UniversalNewlines(Tail(s))
         ELSE <<Head(s)>> \o UniversalNewlines(Tail(s))

ValidUtf8(bytes) == xFF \notin Range(bytes)

\* open(file_path, "r", encoding="utf-8").read() of valid UTF-8
ReadUtf8(bytes) == UniversalNewlines(bytes)

\* open(file_path, "r", encoding="latin-1").read(): every byte decodes
ReadLatin1(bytes) ==
    UniversalNewlines([i \in 1..Len(bytes) |-> IF bytes[i] = xFF THEN U00FF ELSE bytes[i]])

\* does this open of the file end in an OSError?
OpenFails(n, which) == n = ProbeId /\ fault = which

\* "file_extension in BINARY_EXTENSIONS" of get_local_file_contents
LocalIsBinary(name) == SplitExt(name) \in BINARY_EXTENSIONS

\* "any(content.name.endswith(ext) for ext in BINARY_EXTENSIONS)" of get_file_contents
RemoteIsBinary(name) == \E ext \in BINARY_EXTENSIONS : EndsWith(name, ext)

ContentDescriptor(rel) == <<"File: ">> \o rel \o <<NL>>

\* what the try statement of get_local_file_contents does with one file:
\* the block it appends, the opens it makes, the exception that leaves it
ReadLocalFile(n) ==
    LET descriptor == ContentDescriptor(RelPath(PathOf(n), RootPath))
        bytes == Bytes(n)
    IN  IF LocalIsBinary(Tree[n].name)
        THEN [block |-> descriptor \o <<"Content: Skipped binary file", NL, NL>>,
              opens |-> 0, raises |-> None]
        ELSE IF OpenFails(n, "open1")
        THEN [block |-> descriptor \o <<"Content: Skipped due to error: ", "OSError", NL, NL>>,
              opens |-> 1, raises |-> None]
        ELSE IF ValidUtf8(bytes)
        THEN [block |-> descriptor \o <<"Content:", NL>> \o ReadUtf8(bytes) \o <<NL, NL>>,
              opens |-> 1, raises |-> None]
        ELSE IF OpenFails(n, "open2")
        THEN [block |-> <<>>, opens |-> 2, raises |-> "OSError"]
        ELSE [block |-> descriptor \o <<"Content (Latin-1 Decoded):", NL>>
                          \o ReadLatin1(bytes) \o <<NL, NL>>,
              opens |-> 2, raises |-> None]

(***************************************************************************)
(* The filters of the two local walks.                                     *)
(***************************************************************************)
\* a variant without the hard-coded ".git" test
KeepsDir_NoGitTest(d, patterns) == ~AnyMatch(Tree[d].name, patterns)

\* the dirs[:] = [...] of both walks
KeepsDir(d, patterns) ==
    Tree[d].name # DotGit /\ ~AnyMatch(Tree[d].name, patterns)

\* the files = [...] of get_local_repo_structure
StructureKeepsFile(f, patterns) == ~AnyMatch(PathOf(f), patterns)

\* the files = [...] of get_local_file_contents
ContentKeepsFile(f, patterns) ==
    ~AnyMatch(Tree[f].name, patterns) /\ Lower(Tree[f].name) # readme_md

\* the three list comprehensions
KeptDirs(root, patterns) ==
    LET keeps(d) == KeepsDir(d, patterns)
    IN  SelectSeq(Listing(root, "dir", 1), keeps)

StructureFiles(root, patterns) ==
    LET keeps(f) == StructureKeepsFile(f, patterns)
    IN  SelectSeq(Listing(root, "file", 1), keeps)

ContentFiles(root, patterns) ==
    LET keeps(f) == ContentKeepsFile(f, patterns)
    IN  SelectSeq(Listing(root, "file", 1), keeps)

DirLine(d) == RelPath(PathOf(d), RootPath) \o <<"/", NL>>
FileLine(f) == RelPath(PathOf(f), RootPath) \o <<NL>>

(***************************************************************************)
(* analyze and get_text                                                    *)
(***************************************************************************)
GitHubPrefix == <<"https://github.com/">>
\* a variant that accepts the http scheme as well
is_github_repo_url_AnyScheme(path) ==
    StartsWith(path, GitHubPrefix) \/ StartsWith(path, <<"http://github.com/">>)

is_github_repo_url(path) == StartsWith(path, GitHubPrefix)
isdir(path) == path = RootPath

\* repo_path_or_url.split("/")[-1]
RECURSIVE LastSegment(_)
LastSegment(s) ==
    IF s = <<>> \/ s[Len(s)] = "/" THEN <<>>
    ELSE LastSegment(SubSeq(s, 1, Len(s) - 1)) \o <<s[Len(s)]>>

\* lines 399-415 of analyze
Analyze ==
    /\ pc = "analyze"
    /\ IF ~(copy_to_clipboard_option \/ save_to_file_option)
       THEN pc' = "exit" /\ exit_code' = 1 /\ UNCHANGED is_local
       ELSE IF is_github_repo_url(input_path)
       THEN pc' = "get_text" /\ is_local' = FALSE /\ UNCHANGED exit_code
       ELSE IF isdir(input_path)
       THEN pc' = "get_text" /\ is_local' = TRUE /\ UNCHANGED exit_code
       ELSE pc' = "exit" /\ exit_code' = 1 /\ UNCHANGED is_local
    /\ UNCHANGED <<env, repo_name, ignore_patterns, walk, files, readme_content,
                   structure, file_contents_list, opened, dirs_to_visit,
                   dirs_visited, fetched, requests, text, clipboard, saved,
                   raised, run, first>>

\* lines 325-339 of get_text
GetTextBegin ==
    /\ pc = "get_text"
    /\ repo_name' = LastSegment(input_path)
    /\ IF is_local
       THEN pc' = "readme" /\ UNCHANGED <<raised, requests>>
       ELSE IF GITHUB_TOKEN = None
       THEN pc' = "raised" /\ raised' = "ValueError" /\ UNCHANGED requests
       ELSE /\ pc' = "readme"
            /\ requests' = Append(requests, <<"get_repo", GITHUB_TOKEN>>)
            /\ UNCHANGED raised
    /\ UNCHANGED <<env, is_local, ignore_patterns, walk, files, readme_content,
                   structure, file_contents_list, opened, dirs_to_visit,
                   dirs_visited, fetched, text, clipboard, saved, exit_code,
                   run, first>>

\* get_local_readme_content
ReadmeId == CHOOSE n \in Nodes : Tree[n].name = README_md /\ Tree[n].parent = 0

LocalReadme ==
    /\ pc = "readme" /\ is_local
    /\ readme_content' = ReadUtf8(Bytes(ReadmeId))
    /\ opened' = opened \cup {ReadmeId}
    /\ pc' = "structure"
    /\ UNCHANGED <<env, is_local, repo_name, ignore_patterns, walk, files,
                   structure, file_contents_list, dirs_to_visit, dirs_visited,
                   fetched, requests, text, clipboard, saved, exit_code, raised,
                   run, first>>

\* get_local_repo_structure up to its loop: parse_ignore_patterns(path)
LocalStructureBegin ==
    /\ pc = "structure" /\ is_local
    /\ ignore_patterns' \in ParseIgnorePatterns(gitignore, gptignore)
    /\ structure' = <<>>
    /\ walk' = <<0>>
    /\ pc' = "structure_walk"
    /\ UNCHANGED <<env, is_local, repo_name, files, readme_content,
                   file_contents_list, opened, dirs_to_visit, dirs_visited,
                   fetched, requests, text, clipboard, saved, exit_code, raised,
                   run, first>>

\* one iteration of "for root, dirs, files in os.walk(path)" in
\* get_local_repo_structure
LocalStructureWalk ==
    /\ pc = "structure_walk" /\ walk # <<>>
    /\ LET root == Head(walk)
           dirs == KeptDirs(root, ignore_patterns)
           files_ == StructureFiles(root, ignore_patterns)
       IN  /\ structure' = structure \o [i \in 1..Len(dirs) |-> DirLine(dirs[i])]
                                     \o [i \in 1..Len(files_) |-> FileLine(files_[i])]
           /\ walk' = dirs \o Tail(walk)
    /\ UNCHANGED <<env, pc, is_local, repo_name, ignore_patterns, files,
                   readme_content, file_contents_list, opened, dirs_to_visit,
                   dirs_visited, fetched, requests, text, clipboard, saved,
                   exit_code, raised, run, first>>

\* get_local_repo_structure returns; get_local_file_contents up to its loop
LocalContentsBegin ==
    /\ pc = "structure_walk" /\ walk = <<>>
    /\ ignore_patterns' \in ParseIgnorePatterns(gitignore, gptignore)
    /\ file_contents_list' = <<>>
    /\ walk' = <<0>>
    /\ files' = <<>>
    /\ pc' = "contents_walk"
    /\ UNCHANGED <<env, is_local, repo_name, readme_content, structure, opened,
                   dirs_to_visit, dirs_visited, fetched, requests, text,
                   clipboard, saved, exit_code, raised, run, first>>

\* one iteration of the os.walk loop of get_local_file_contents, up to its
\* "for file_name in files"
LocalContentsWalk ==
    /\ pc = "contents_walk" /\ files = <<>> /\ walk # <<>>
    /\ LET root == Head(walk)
           dirs == KeptDirs(root, ignore_patterns)
       IN  /\ files' = ContentFiles(root, ignore_patterns)
           /\ walk' = dirs \o Tail(walk)
    /\ UNCHANGED <<env, pc, is_local, repo_name, ignore_patterns,
                   readme_content, structure, file_contents_list, opened,
                   dirs_to_visit, dirs_visited, fetched, requests, text,
                   clipboard, saved, exit_code, raised, run, first>>

\* one iteration of "for file_name in files" in get_local_file_contents
LocalContentsFile ==
    /\ pc = "contents_walk" /\ files # <<>>
    /\ LET f == Head(files)
           r == ReadLocalFile(f)
       IN  IF Lower(Tree[f].name) = readme_md
           THEN UNCHANGED <<file_contents_list, opened, pc, raised>>
           ELSE /\ opened' = IF r.opens > 0 THEN opened \cup {f} ELSE opened
                /\ IF r.raises # None
                   THEN /\ pc' = "raised" /\ raised' = r.raises
                        /\ UNCHANGED file_contents_list
                   ELSE /\ file_contents_list' = Append(file_contents_list, r.block)
                        /\ UNCHANGED <<pc, raised>>
    /\ files' = Tail(files)
    /\ UNCHANGED <<env, is_local, repo_name, ignore_patterns, walk,
                   readme_content, structure, dirs_to_visit, dirs_visited,
                   fetched, requests, text, clipboard, saved, exit_code, run,
                   first>>

\* get_local_file_contents returns
LocalContentsEnd ==
    /\ pc = "contents_walk" /\ files = <<>> /\ walk = <<>>
    /\ pc' = "assemble"
    /\ UNCHANGED <<env, is_local, repo_name, ignore_patterns, walk, files,
                   readme_content, structure, file_contents_list, opened,
                   dirs_to_visit, dirs_visited, fetched, requests, text,
                   clipboard, saved, exit_code, raised, run, first>>

(***************************************************************************)
(* The remote repository: repo[n] is an entry with its name, its type      *)
(* ("dir" or "file"), its parent (0 is the repository root) and what its   *)
(* decoded_content is: "utf8" text, "bad" bytes that are not UTF-8, or     *)
(* "missing" (None).                                                       *)
(***************************************************************************)
RNodes == 1..Len(repo)

\* content.path: the names from the root down, joined by "/", no leading "/"
RECURSIVE RPath(_)
RPath(n) ==
    IF repo[n].parent = 0 THEN repo[n].name
    ELSE Join(RPath(repo[n].parent), repo[n].name)

\* repo.get_contents(path of d): the entries of d in the order the API lists them
RECURSIVE RListing(_, _)
RListing(d, from) ==
    IF from > Len(repo) THEN <<>>
    ELSE IF repo[from].parent = d
         THEN <<from>> \o RListing(d, from + 1)
         ELSE RListing(d, from + 1)

RDirs == {n \in RNodes : repo[n].type = "dir"}
RFiles == {n \in RNodes : repo[n].type = "file"}

\* a variant that does not look at the entry's type
QueuesDir_AnyType(n, visited) == RPath(n) \notin visited

\* "content.type == 'dir' and content.path not in dirs_visited"
QueuesDir(n, visited) == repo[n].type = "dir" /\ RPath(n) \notin visited

\* f"{path}/{content.name}"
RJoin(path, n) == path \o <<"/">> \o repo[n].name

\* get_readme_content
RemoteReadme ==
    /\ pc = "readme" /\ ~is_local
    /\ requests' = Append(requests, <<"get_contents", README_md>>)
    /\ LET found == {n \in RNodes : repo[n].parent = 0 /\ repo[n].name = README_md
                                      /\ repo[n].type = "file"}
       IN  readme_content' =
               IF found # {} /\ (\A n \in found : repo[n].content = "utf8")
               THEN <<"a", NL>>
               ELSE <<"README not found.">>
    /\ pc' = "rstructure_begin"
    /\ UNCHANGED <<env, is_local, repo_name, ignore_patterns, walk, files,
                   structure, file_contents_list, opened, dirs_to_visit,
                   dirs_visited, fetched, text, clipboard, saved, exit_code,
                   raised, run, first>>

\* lines 143-145 of get_repo_structure, and 195-197 of get_file_contents
WorklistBegin(at, to) ==
    /\ pc = at
    /\ dirs_to_visit' = <<[path |-> <<>>, contents |-> RListing(0, 1)] >>
    /\ dirs_visited' = {}
    /\ fetched' = [gets |-> <<0>>, pops |-> <<>>]
    /\ requests' = Append(requests, <<"get_contents", <<>>>>)
    /\ pc' = to

RemoteStructureBegin ==
    /\ WorklistBegin("rstructure_begin", "rstructure")
    /\ structure' = <<>>
    /\ UNCHANGED <<env, is_local, repo_name, ignore_patterns, walk, files,
                   readme_content, file_contents_list, opened, text, clipboard,
                   saved, exit_code, raised, run, first>>

\* the structure lines one "for content in contents" adds
RECURSIVE RStructureLines(_, _, _)
RStructureLines(path, contents, visited) ==
    IF contents = <<>> THEN <<>>
    ELSE LET n == Head(contents)
             line == IF QueuesDir(n, visited)
                     THEN RJoin(path, n) \o <<"/", NL>>
                     ELSE RJoin(path, n) \o <<NL>>
         IN  <<line>> \o RStructureLines(path, Tail(contents), visited)

\* the directories one "for content in contents" queues, in order
RECURSIVE RQueued(_, _, _)
RQueued(path, contents, visited) ==
    IF contents = <<>> THEN <<>>
    ELSE LET n == Head(contents)
         IN  (IF QueuesDir(n, visited)
              THEN <<[path |-> RJoin(path, n), contents |-> RListing(n, 1), node |-> n]>>
              ELSE <<>>)
             \o RQueued(path, Tail(contents), visited)

\* one iteration of "while dirs_to_visit" (both worklists): pop, mark, queue
WorklistPop(at) ==
    /\ pc = at /\ dirs_to_visit # <<>>
    /\ LET top == dirs_to_visit[Len(dirs_to_visit)]
           visited == dirs_visited \cup {top.path}
           queued == RQueued(top.path, top.contents, visited)
       IN  /\ dirs_visited' = visited
           /\ dirs_to_visit' =
                  SubSeq(dirs_to_visit, 1, Len(dirs_to_visit) - 1)
                  \o [i \in 1..Len(queued) |->
                         [path |-> queued[i].path, contents |-> queued[i].contents]]
           /\ fetched' =
                  [gets |-> fetched.gets \o [i \in 1..Len(queued) |-> queued[i].node],
                   pops |-> Append(fetched.pops, top.path)]
           /\ requests' =
                  requests \o [i \in 1..Len(queued) |->
                                  <<"get_contents", RPath(queued[i].node)>>]

\* one iteration of "while dirs_to_visit" in get_repo_structure
RemoteStructurePop ==
    /\ WorklistPop("rstructure")
    /\ LET top == dirs_to_visit[Len(dirs_to_visit)]
       IN  structure' = structure
               \o RStructureLines(top.path, top.contents, dirs_visited \cup {top.path})
    /\ UNCHANGED <<env, pc, is_local, repo_name, ignore_patterns, walk, files,
                   readme_content, file_contents_list, opened, text, clipboard,
                   saved, exit_code, raised, run, first>>

\* get_repo_structure returns; get_file_contents up to its loop
RemoteContentsBegin ==
    /\ pc = "rstructure" /\ dirs_to_visit = <<>>
    /\ WorklistBegin("rstructure", "rcontents")
    /\ file_contents_list' = <<>>
    /\ UNCHANGED <<env, is_local, repo_name, ignore_patterns, walk, files,
                   readme_content, structure, opened, text, clipboard, saved,
                   exit_code, raised, run, first>>

\* lines 209-230 of get_file_contents for one entry that is not queued
RemoteBlock(path, n) ==
    LET descriptor == <<"File: ">> \o RJoin(path, n) \o <<NL>>
    IN  IF RemoteIsBinary(repo[n].name)
        THEN descriptor \o <<"Content: Skipped binary file", NL, NL>>
        ELSE descriptor \o <<"Content: ">> \o
             (CASE repo[n].content = "utf8" -> <<NL, "a", NL, NL, NL>>
                [] repo[n].content = "bad" -> <<"Skipped due to unsupported encoding", NL, NL>>
                [] OTHER ->
                    <<"Skipped due to decoding error or missing decoded_content", NL, NL>>)

\* the blocks one "for content in contents" of get_file_contents adds
RECURSIVE RBlocks(_, _, _)
RBlocks(path, contents, visited) ==
    IF contents = <<>> THEN <<>>
    ELSE LET n == Head(contents)
         IN  (IF QueuesDir(n, visited) \/ Lower(repo[n].name) = readme_md
              THEN <<>>
              ELSE <<RemoteBlock(path, n)>>)
             \o RBlocks(path, Tail(contents), visited)

\* one iteration of "while dirs_to_visit" in get_file_contents
RemoteContentsPop ==
    /\ WorklistPop("rcontents")
    /\ LET top == dirs_to_visit[Len(dirs_to_visit)]
       IN  file_contents_list' = file_contents_list
               \o RBlocks(top.path, top.contents, dirs_visited \cup {top.path})
    /\ UNCHANGED <<env, pc, is_local, repo_name, ignore_patterns, walk, files,
                   readme_content, structure, opened, text, clipboard, saved,
                   exit_code, raised, run, first>>

\* get_file_contents returns
RemoteContentsEnd ==
    /\ pc = "rcontents" /\ dirs_to_visit = <<>>
    /\ pc' = "assemble"
    /\ UNCHANGED <<env, is_local, repo_name, ignore_patterns, walk, files,
                   readme_content, structure, file_contents_list, opened,
                   dirs_to_visit, dirs_visited, fetched, requests, text,
                   clipboard, saved, exit_code, raised, run, first>>

(***************************************************************************)
(* Assembly and the two sinks.                                             *)
(***************************************************************************)
\* instructions-prompt.txt, read from the working directory: a template
\* holding the repo-name placeholder
PromptTemplate == <<"Instructions for ", "##REPO_NAME##", NL>>

\* get_instructions: str.replace("##REPO_NAME##", repo_name)
RECURSIVE get_instructions(_, _)
get_instructions(template, name) ==
    IF template = <<>> THEN <<>>
    ELSE (IF Head(template) = "##REPO_NAME##" THEN name ELSE <<Head(template)>>)
         \o get_instructions(Tail(template), name)

\* line 345-355 of get_text
AssembledText(name, readme, lines, blocks, skip_prompt) ==
    (IF skip_prompt THEN <<>> ELSE get_instructions(PromptTemplate, name))
    \o <<NL, NL, "README:", NL>> \o readme \o <<NL, NL>>
    \o <<"Repository Structure: ">> \o name \o <<NL>> \o Flatten(lines)
    \o <<NL, NL>> \o Flatten(blocks)

Assemble ==
    /\ pc = "assemble"
    /\ text' = AssembledText(repo_name, readme_content, structure,
                             file_contents_list, no_prompt)
    /\ pc' = "copy"
    /\ UNCHANGED <<env, is_local, repo_name, ignore_patterns, walk, files,
                   readme_content, structure, file_contents_list, opened,
                   dirs_to_visit, dirs_visited, fetched, requests, clipboard,
                   saved, exit_code, raised, run, first>>

\* lines 417-418 of analyze
CopySink ==
    /\ pc = "copy"
    /\ clipboard' = IF copy_to_clipboard_option THEN Append(clipboard, text) ELSE clipboard
    /\ pc' = "save"
    /\ UNCHANGED <<env, is_local, repo_name, ignore_patterns, walk, files,
                   readme_content, structure, file_contents_list, opened,
                   dirs_to_visit, dirs_visited, fetched, requests, text, saved,
                   exit_code, raised, run, first>>

\* the values get_timestamp can return
Timestamps == {"2024-01-01_00-00-00", "2024-01-01_00-00-01"}

\* the output_filename of save_to_file
OutputFilename(filename, stamped, now) ==
    IF stamped THEN filename \o <<"_", now, ".txt">> ELSE filename \o <<".txt">>

\* lines 420-421 of analyze, and the return
SaveSink ==
    /\ pc = "save"
    /\ IF save_to_file_option
       THEN \E now \in Timestamps :
               saved' = Append(saved,
                               [name |-> OutputFilename(repo_name, timestamp_option, now),
                                text |-> text])
       ELSE UNCHANGED saved
    /\ pc' = "done"
    /\ exit_code' = 0
    /\ UNCHANGED <<env, is_local, repo_name, ignore_patterns, walk, files,
                   readme_content, structure, file_contents_list, opened,
                   dirs_to_visit, dirs_visited, fetched, requests, text,
                   clipboard, raised, run, first>>

(***************************************************************************)
(* The state a run of the command starts in.                               *)
(***************************************************************************)
Fresh ==
    /\ pc = "analyze"
    /\ is_local = FALSE
    /\ repo_name = <<>>
    /\ ignore_patterns = <<>>
    /\ walk = <<>>
    /\ files = <<>>
    /\ readme_content = <<>>
    /\ structure = <<>>
    /\ file_contents_list = <<>>
    /\ opened = {}
    /\ dirs_to_visit = <<>>
    /\ dirs_visited = {}
    /\ fetched = [gets |-> <<>>, pops |-> <<>>]
    /\ requests = <<>>
    /\ text = <<>>
    /\ clipboard = <<>>
    /\ saved = <<>>
    /\ exit_code = -1
    /\ raised = None

\* the command is run a second time on the same directory, same options
Rerun ==
    /\ pc = "done" /\ run = 1
    /\ first' = <<[text |-> text, saved |-> saved, clipboard |-> clipboard,
                   patterns |-> ignore_patterns]>>
    /\ run' = 2
    /\ pc' = "analyze"
    /\ is_local' = FALSE
    /\ repo_name' = <<>>
    /\ ignore_patterns' = <<>>
    /\ walk' = <<>>
    /\ files' = <<>>
    /\ readme_content' = <<>>
    /\ structure' = <<>>
    /\ file_contents_list' = <<>>
    /\ opened' = {}
    /\ dirs_to_visit' = <<>>
    /\ dirs_visited' = {}
    /\ fetched' = [gets |-> <<>>, pops |-> <<>>]
    /\ requests' = <<>>
    /\ text' = <<>>
    /\ clipboard' = <<>>
    /\ saved' = <<>>
    /\ exit_code' = -1
    /\ raised' = None
    /\ UNCHANGED env

(***************************************************************************)
(* Inputs.                                                                 *)
(***************************************************************************)
RepoUrl == GitHubPrefix \o <<"o", "/", "r">>
InputPaths == {RootPath, RepoUrl, <<"n">>, <<"http://github.com/">> \o <<"o", "/", "r">>}

RFile(name, parent) == [name |-> name, type |-> "file", parent |-> parent, content |-> "utf8"]
RDir(name, parent) == [name |-> name, type |-> "dir", parent |-> parent, content |-> "missing"]

SmallRepo ==
    << RFile(README_md, 0), RDir(<<"a">>, 0), RFile(<<"x", ".", "p", "n", "g">>, 2),
       RFile(<<"m", ".", "p", "y">>, 2) >>

\* the command line: every option, local directory, URL or neither, the
\* token in the environment, on the command line, in both or in neither
Init ==
    /\ copy_to_clipboard_option \in BOOLEAN
    /\ save_to_file_option \in BOOLEAN
    /\ timestamp_option \in BOOLEAN
    /\ no_prompt \in BOOLEAN
    /\ input_path \in InputPaths
    /\ GITHUB_TOKEN \in {None, "env-token"}
    /\ \E flag \in {None, "flag-token"} :
          github_token = IF flag # None THEN flag ELSE GITHUB_TOKEN
    /\ gitignore = NoFile
    /\ gptignore = NoFile
    /\ probe = <<"a", NL>>
    /\ fault = "none"
    /\ repo = SmallRepo
    /\ Fresh
    /\ run = 1
    /\ first = <<>>

NextLocal ==
    \/ Analyze
    \/ GetTextBegin
    \/ LocalReadme
    \/ LocalStructureBegin
    \/ LocalStructureWalk
    \/ LocalContentsBegin
    \/ LocalContentsWalk
    \/ LocalContentsFile
    \/ LocalContentsEnd
    \/ Assemble
    \/ CopySink
    \/ SaveSink

NextRemote ==
    \/ Analyze
    \/ GetTextBegin
    \/ RemoteReadme
    \/ RemoteStructureBegin
    \/ RemoteStructurePop
    \/ RemoteContentsBegin
    \/ RemoteContentsPop
    \/ RemoteContentsEnd
    \/ Assemble
    \/ CopySink
    \/ SaveSink

Next ==
    \/ Analyze
    \/ GetTextBegin
    \/ LocalReadme
    \/ LocalStructureBegin
    \/ LocalStructureWalk
    \/ LocalContentsBegin
    \/ LocalContentsWalk
    \/ LocalContentsFile
    \/ LocalContentsEnd
    \/ RemoteReadme
    \/ RemoteStructureBegin
    \/ RemoteStructurePop
    \/ RemoteContentsBegin
    \/ RemoteContentsPop
    \/ RemoteContentsEnd
    \/ Assemble
    \/ CopySink
    \/ SaveSink

Spec == Init /\ [][Next]_vars

(***************************************************************************)
(* SpecParse: parse_ignore_patterns on every pair of ignore files of at    *)
(* most MaxIgnoreLines lines each.                                         *)
(***************************************************************************)
IgnoreFiles == {NoFile} \cup {IgnoreFile(lines) : lines \in SeqsUpTo(LinePool, MaxIgnoreLines)}

InitParse ==
    /\ copy_to_clipboard_option = TRUE
    /\ save_to_file_option = TRUE
    /\ timestamp_option = FALSE
    /\ no_prompt = FALSE
    /\ input_path = RootPath
    /\ GITHUB_TOKEN = None
    /\ github_token = None
    /\ gitignore \in IgnoreFiles
    /\ gptignore \in IgnoreFiles
    /\ probe = <<"a", NL>>
    /\ fault = "none"
    /\ repo = <<>>
    /\ pc = "structure"
    /\ is_local = TRUE
    /\ repo_name = RootPath
    /\ ignore_patterns = <<>>
    /\ walk = <<>>
    /\ files = <<>>
    /\ readme_content = <<>>
    /\ structure = <<>>
    /\ file_contents_list = <<>>
    /\ opened = {}
    /\ dirs_to_visit = <<>>
    /\ dirs_visited = {}
    /\ fetched = [gets |-> <<>>, pops |-> <<>>]
    /\ requests = <<>>
    /\ text = <<>>
    /\ clipboard = <<>>
    /\ saved = <<>>
    /\ exit_code = -1
    /\ raised = None
    /\ run = 1
    /\ first = <<>>

NextParse == LocalStructureBegin

SpecParse == InitParse /\ [][NextParse]_vars

(***************************************************************************)
(* SpecLocal: the command on the local directory, over a choice of ignore  *)
(* files, every content of s/m.py of at most MaxTextLen bytes, and the     *)
(* open of s/m.py that fails, if any.                                      *)
(***************************************************************************)
ByteAlphabet == {"a", CR, NL, xFF}

LocalIgnoreConfigs ==
    { <<NoFile, NoFile>>,
      <<IgnoreFile(<< <<"#", "c", NL>> >>), NoFile>>,
      <<IgnoreFile(<< <<"b", NL>>, <<"*", ".", "p", "y", NL>> >>), NoFile>>,
      <<IgnoreFile(<< <<"m", ".", "p", "y", NL>> >>),
        IgnoreFile(<< <<"*", ".", "p", "n", "g", NL>> >>)>>,
      <<IgnoreFile(<< <<"s", NL>> >>), IgnoreFile(<< <<"b", NL>>, <<"s", NL>> >>)>>,
      <<IgnoreFile(<< <<"?", NL>> >>), NoFile>>,
      <<NoFile, IgnoreFile(<< <<".", "e", "*", NL>>, <<"d", NL>> >>)>> }

InitLocal ==
    /\ copy_to_clipboard_option = TRUE
    /\ save_to_file_option = TRUE
    /\ timestamp_option = FALSE
    /\ no_prompt = FALSE
    /\ input_path = RootPath
    /\ GITHUB_TOKEN = None
    /\ github_token = None
    /\ \E config \in LocalIgnoreConfigs :
          gitignore = config[1] /\ gptignore = config[2]
    /\ probe \in SeqsUpTo(ByteAlphabet, MaxTextLen)
    /\ fault \in {"none", "open1", "open2"}
    /\ repo = <<>>
    /\ Fresh
    /\ run = 1
    /\ first = <<>>

SpecLocal == InitLocal /\ [][NextLocal]_vars

(***************************************************************************)
(* SpecTwice: the command run twice on the same directory.                 *)
(***************************************************************************)
InitTwice ==
    /\ copy_to_clipboard_option = TRUE
    /\ save_to_file_option = TRUE
    /\ timestamp_option \in BOOLEAN
    /\ no_prompt \in BOOLEAN
    /\ input_path = RootPath
    /\ GITHUB_TOKEN = None
    /\ github_token = None
    /\ \E config \in LocalIgnoreConfigs :
          gitignore = config[1] /\ gptignore = config[2]
    /\ probe \in {<<"a", NL>>, <<"a", xFF, CR, NL>>}
    /\ fault \in {"none", "open1"}
    /\ repo = <<>>
    /\ Fresh
    /\ run = 1
    /\ first = <<>>

NextTwice ==
    \/ Analyze
    \/ GetTextBegin
    \/ LocalReadme
    \/ LocalStructureBegin
    \/ LocalStructureWalk
    \/ LocalContentsBegin
    \/ LocalContentsWalk
    \/ LocalContentsFile
    \/ LocalContentsEnd
    \/ Assemble
    \/ CopySink
    \/ SaveSink
    \/ Rerun

SpecTwice == InitTwice /\ [][NextTwice]_vars

(***************************************************************************)
(* SpecRemote: the command on a GitHub URL, over every repository tree of  *)
(* at most MaxRemoteNodes entries.                                         *)
(***************************************************************************)
Letters == <<"a", "b", "c", "d", "e", "f", "g", "h">>

\* the entries a tree t can be extended by
RemoteEntries(t) ==
    LET i == Len(t) + 1
        parents == {0} \cup {p \in 1..Len(t) : t[p].type = "dir"}
        content == IF i % 3 = 0 THEN "bad" ELSE IF i % 4 = 0 THEN "missing" ELSE "utf8"
        hasReadme(p) == \E m \in 1..Len(t) : t[m].parent = p /\ t[m].name = README_md
    IN  {[name |-> <<Letters[i]>>, type |-> ty, parent |-> p, content |-> content] :
            ty \in {"dir", "file"}, p \in parents}
        \cup {[name |-> README_md, type |-> "file", parent |-> p, content |-> content] :
                 p \in {q \in parents : ~hasReadme(q)}}

RECURSIVE RemoteTreesOfSize(_)
RemoteTreesOfSize(k) ==
    IF k = 0 THEN {<<>>}
    ELSE UNION {{Append(t, e) : e \in RemoteEntries(t)} : t \in RemoteTreesOfSize(k - 1)}

RemoteTrees == UNION {RemoteTreesOfSize(k) : k \in 0..MaxRemoteNodes}

InitRemote ==
    /\ copy_to_clipboard_option = TRUE
    /\ save_to_file_option = TRUE
    /\ timestamp_option = FALSE
    /\ no_prompt = FALSE
    /\ input_path = RepoUrl
    /\ GITHUB_TOKEN = "env-token"
    /\ github_token = "env-token"
    /\ gitignore = NoFile
    /\ gptignore = NoFile
    /\ probe = <<"a", NL>>
    /\ fault = "none"
    /\ repo \in RemoteTrees
    /\ Fresh
    /\ run = 1
    /\ first = <<>>

SpecRemote == InitRemote /\ [][NextRemote]_vars

(***************************************************************************)
(* What the claims speak of.                                               *)
(***************************************************************************)
Count(seq, x) == Cardinality({i \in DOMAIN seq : seq[i] = x})

LocalFiles == {n \in Nodes : Tree[n].kind = "file" /\ Exists(n)}
LocalDirs == {n \in Nodes : Tree[n].kind = "dir" /\ Exists(n)}
Rel(n) == RelPath(PathOf(n), RootPath)

\* the entry has a line in the structure listing
Listed(n) ==
    IF Tree[n].kind = "dir" THEN DirLine(n) \in Range(structure)
    ELSE FileLine(n) \in Range(structure)

\* the blocks of the content output that are about the file
BlocksOf(n) ==
    {i \in DOMAIN file_contents_list :
        StartsWith(file_contents_list[i], ContentDescriptor(Rel(n)))}

Emitted(n) == BlocksOf(n) # {}

BothPassesDone == pc \in {"assemble", "copy", "save", "done"}

\* the patterns in force, whatever order a pass lists them in
PatternSet == Range(CollectedPatterns(gitignore, gptignore))

(***************************************************************************)
(* C1.  Once both local passes are done, no file other than a README.md is *)
(* emitted by one pass and omitted by the other: it has a line in the      *)
(* structure listing exactly if it has a block in the content output.      *)
(* The code violates this: get_local_repo_structure matches the patterns   *)
(* against os.path.join(root, f), get_local_file_contents against f.       *)
(***************************************************************************)
C1_IgnoredInBothPasses ==
    (BothPassesDone /\ is_local) =>
        \A n \in LocalFiles :
            Lower(Tree[n].name) # readme_md => (Listed(n) <=> Emitted(n))

\* the name ends with an entry of the table
EndsWithBinaryEntry(name) == \E e \in BINARY_EXTENSIONS : EndsWith(name, e)

(***************************************************************************)
(* C2.  A file whose name ends with an entry of BINARY_EXTENSIONS is never *)
(* opened by the content pass, and its block, if it has one, is exactly    *)
(* the "Content: Skipped binary file" placeholder.  The code violates this *)
(* for the local pass, which looks up os.path.splitext(name)[1] only.      *)
(***************************************************************************)
C2_BinaryNeverOpened ==
    \A n \in LocalFiles :
        EndsWithBinaryEntry(Tree[n].name) =>
            /\ n \notin opened
            /\ \A i \in BlocksOf(n) :
                  file_contents_list[i] =
                      ContentDescriptor(Rel(n)) \o <<"Content: Skipped binary file", NL, NL>>

(***************************************************************************)
(* C3.  No failure while reading one file leaves the content pass: no      *)
(* exception is ever raised out of get_local_file_contents.  The code      *)
(* violates this: an OSError of the Latin-1 open, made inside the handler  *)
(* of UnicodeDecodeError, is caught by nothing.                            *)
(***************************************************************************)
C3_ReadErrorsNeverPropagate == raised = None /\ pc # "raised"

\* the content pass descends to the file and keeps it
ReachedByContentPass(n) ==
    /\ \A d \in Ancestors(n) \ {0} : KeepsDir(d, ignore_patterns)
    /\ ContentKeepsFile(n, ignore_patterns)

(***************************************************************************)
(* C4.  Every file the content pass reaches that is not a README, not      *)
(* binary and readable, and whose bytes are valid UTF-8, has the block     *)
(* "File: <path>", "Content:", then its bytes unchanged.  The code         *)
(* violates this: text mode reads "\r\n" and "\r" as "\n".                 *)
(***************************************************************************)
C4_Utf8TextExact ==
    (BothPassesDone /\ is_local) =>
        \A n \in LocalFiles :
            (/\ ReachedByContentPass(n)
             /\ ~LocalIsBinary(Tree[n].name)
             /\ ValidUtf8(Bytes(n))
             /\ ~OpenFails(n, "open1"))
            => \E i \in DOMAIN file_contents_list :
                  file_contents_list[i] =
                      ContentDescriptor(Rel(n)) \o <<"Content:", NL>> \o Bytes(n) \o <<NL, NL>>

\* the lines of an ignore file that are patterns, stripped
SurvivingLines(f) ==
    {Strip(f.lines[i]) : i \in {j \in DOMAIN f.lines :
        LET l == Strip(f.lines[j]) IN l # <<>> /\ Head(l) # "#"}}

(***************************************************************************)
(* C5.  parse_ignore_patterns returns a list without duplicates whose      *)
(* elements are the stripped, non-blank, non-"#" lines of .gitignore and   *)
(* .gptignore when there is one, the three defaults when there is none;    *)
(* a missing file raises nothing.                                          *)
(***************************************************************************)
C5_ParseIgnorePatterns ==
    pc = "structure_walk" =>
        LET union == SurvivingLines(gitignore) \cup SurvivingLines(gptignore)
        IN  /\ \A i, j \in DOMAIN ignore_patterns :
                  ignore_patterns[i] = ignore_patterns[j] => i = j
            /\ Range(ignore_patterns) = IF union # {} THEN union ELSE DefaultIgnore
            /\ raised = None

\* both files exist and share a pattern, which the result lists once
C5_Witness ==
    /\ pc = "structure_walk"
    /\ gitignore.exists /\ gptignore.exists
    /\ SurvivingLines(gitignore) \cap SurvivingLines(gptignore) # {}
    /\ Len(ignore_patterns) = 1
    /\ Len(CleanedLines(gitignore.lines)) + Len(CleanedLines(gptignore.lines)) >= 3

\* neither sink was written; nothing of the input was read
NothingWritten == clipboard = <<>> /\ saved = <<>>
NothingRead ==
    /\ opened = {} /\ requests = <<>>
    /\ readme_content = <<>> /\ structure = <<>> /\ file_contents_list = <<>>

(***************************************************************************)
(* C6.  analyze ends with exit code 1 when both sinks are disabled, and    *)
(* when the input is neither a GitHub URL nor a directory; nothing is then *)
(* copied or saved, and with both sinks disabled nothing has been read.    *)
(***************************************************************************)
C6_ExitCodeOne ==
    pc # "analyze" =>
        /\ ~(copy_to_clipboard_option \/ save_to_file_option) =>
              pc = "exit" /\ exit_code = 1 /\ NothingWritten /\ NothingRead
        /\ (~StartsWith(input_path, GitHubPrefix) /\ input_path # RootPath) =>
              pc = "exit" /\ exit_code = 1 /\ NothingWritten

\* both sinks disabled on a directory that exists
C6_Witness ==
    /\ pc = "exit" /\ exit_code = 1
    /\ ~copy_to_clipboard_option /\ ~save_to_file_option
    /\ isdir(input_path)

(***************************************************************************)
(* C7.  A second run on the same directory with the same options and no    *)
(* timestamp copies and saves the same text under the same file name,      *)
(* <repo_name>.txt, whatever order each run lists the patterns in.         *)
(***************************************************************************)
C7_SameOutputTwice ==
    (pc = "done" /\ run = 2 /\ ~timestamp_option) =>
        /\ text = first[1].text
        /\ clipboard = first[1].clipboard
        /\ saved = first[1].saved
        /\ Len(saved) = 1
        /\ saved[1].name = repo_name \o <<".txt">>

\* the second run listed the patterns in another order than the first
C7_Witness ==
    /\ pc = "done" /\ run = 2 /\ ~timestamp_option
    /\ ignore_patterns # first[1].patterns
    /\ \E n \in LocalFiles : ~Emitted(n) /\ AnyMatch(Tree[n].name, ignore_patterns)

\* the directory is .git or matches a pattern in force
PrunedDir(d) ==
    Tree[d].name = DotGit \/ \E p \in PatternSet : FnMatch(Tree[d].name, p)

(***************************************************************************)
(* C8.  A directory named ".git" or whose name matches an ignore pattern   *)
(* is pruned by both walks: neither it nor anything beneath it is ever     *)
(* queued, listed, emitted or opened.                                      *)
(***************************************************************************)
C8_PrunedSubtreesUntouched ==
    \A d \in LocalDirs :
        PrunedDir(d) =>
            \A m \in {n \in Nodes : n = d \/ d \in Ancestors(n)} :
                /\ ~Listed(m)
                /\ ~Emitted(m)
                /\ m \notin opened
                /\ m \notin Range(walk)
                /\ m \notin Range(files)

\* both walks are over, a pattern pruned a directory that holds a directory,
\* and .git was pruned with no pattern naming it
C8_Witness ==
    /\ BothPassesDone /\ is_local
    /\ \E d \in LocalDirs :
          /\ Tree[d].name # DotGit /\ PrunedDir(d)
          /\ \E m \in LocalDirs : d \in Ancestors(m)
    /\ DotGit \notin PatternSet

(***************************************************************************)
(* C9.  The token is needed on the remote path only and may come from the  *)
(* environment or from the flag: a local run never raises for want of it,  *)
(* a remote run without any raises before any request, and a remote run    *)
(* with --github-token and no GITHUB_TOKEN does not raise the              *)
(* missing-token error.  The code violates the last: get_text reads the    *)
(* module global GITHUB_TOKEN and never the github_token option.           *)
(***************************************************************************)
C9_TokenFromEnvOrFlag ==
    /\ is_local => raised = None
    /\ raised = "ValueError" => requests = <<>>
    /\ (StartsWith(input_path, GitHubPrefix) /\ github_token # None) =>
          raised # "ValueError"

(***************************************************************************)
(* C10.  On a finite repository tree both worklists end, fetch and process *)
(* each directory once, and give each directory one line ending in "/",    *)
(* each file one line, each file that is no README one "File:" block.      *)
(***************************************************************************)
\* the "path" the worklists know an entry by: "/" and the names from the root
RSlashPath(n) == <<"/">> \o RPath(n)

RFilesEmitted == {n \in RFiles : Lower(repo[n].name) # readme_md}

\* a worklist has emptied
WorklistDone(at) ==
    \/ (pc = at /\ dirs_to_visit = <<>> /\ fetched.pops # <<>>)
    \/ (at = "rcontents" /\ BothPassesDone)

EachDirectoryOnce ==
    /\ Len(fetched.gets) = Cardinality(RDirs) + 1
    /\ \A n \in RDirs \cup {0} : Count(fetched.gets, n) = 1
    /\ Len(fetched.pops) = Cardinality(RDirs) + 1
    /\ Count(fetched.pops, <<>>) = 1
    /\ \A n \in RDirs : Count(fetched.pops, RSlashPath(n)) = 1

C10_WorklistBehaviour ==
    /\ ~is_local =>
          /\ \A n \in RDirs \cup {0} : Count(fetched.gets, n) <= 1
          /\ Len(fetched.pops) + Len(dirs_to_visit) = Len(fetched.gets)
          /\ Len(fetched.pops) <= Cardinality(RDirs) + 1
    /\ WorklistDone("rstructure") =>
          /\ EachDirectoryOnce
          /\ Len(structure) = Len(repo)
          /\ \A n \in RDirs : Count(structure, RSlashPath(n) \o <<"/", NL>>) = 1
          /\ \A n \in RFiles : Count(structure, RSlashPath(n) \o <<NL>>) = 1
    /\ WorklistDone("rcontents") =>
          /\ EachDirectoryOnce
          /\ Len(file_contents_list) = Cardinality(RFilesEmitted)
          /\ \A n \in RFilesEmitted :
                Cardinality({i \in DOMAIN file_contents_list :
                    StartsWith(file_contents_list[i],
                               <<"File: ">> \o RSlashPath(n) \o <<NL>>)}) = 1

\* the guard "content.path not in dirs_visited" turns away a directory that
\* was processed
VisitedSetGuards ==
    \A n \in RDirs :
        RSlashPath(n) \in Range(fetched.pops) => RPath(n) \in dirs_visited

\* the guard turns away nothing: dirs_visited holds "" and "/"-led paths, and
\* no content.path is either
GuardNeverRejects == \A n \in RNodes : RPath(n) \notin dirs_visited

\* C10 as claimed: "the dirs_visited set is what prevents a directory from
\* being queued a second time"
C10_VisitedSetPreventsRequeue == C10_WorklistBehaviour /\ VisitedSetGuards

\* C10 as amended: each directory is fetched and processed once and every
\* entry treated once, while the dirs_visited guard never turns an entry away
C10_WorklistOnce == C10_WorklistBehaviour /\ GuardNeverRejects

\* a finished remote run over nested directories, two in one directory, and a
\* README below the root
C10_Witness ==
    /\ pc = "done" /\ ~is_local
    /\ \E n, m \in RDirs : repo[m].parent = n
    /\ \E n, m \in RDirs : n # m /\ repo[n].parent = repo[m].parent
    /\ \E n \in RFiles : repo[n].name = README_md /\ repo[n].parent # 0

====
